---------------------------- MODULE Spec2Model ----------------------------
(***************************************************************************)
(* The trie of suveerprasad/TrieVisualiser: the Trie class embedded in     *)
(* src/App.jsx and its duplicate in src/components/Trie.js, over JavaScript *)
(* strings modelled as sequences of UTF-16 code units.                      *)
(***************************************************************************)
EXTENDS Integers, Sequences, FiniteSets, TLC

\* ------------------------------------------------------------------ bounds
MaxLen == 2      \* longest input word, in UTF-16 code units
MaxInserts == 3  \* insert is offered while the frequency counters sum to less than this

\* --------------------------------------------------- JavaScript strings
\* A string is the sequence of its UTF-16 code units.
IsHighSurrogate(u) == u >= 55296 /\ u <= 56319
IsLowSurrogate(u) == u >= 56320 /\ u <= 57343

\* The words offered as input: "", "a", "ab", "ac", "AB", the one-character
\* word U+1F600 (code units 0xD83D 0xDE00), and "a" followed by U+1F600.
Vocabulary ==
    { <<>>, <<97>>, <<97, 98>>, <<97, 99>>, <<65, 66>>, <<55357, 56832>>,
      <<97, 55357, 56832>> }

Strings == {s \in Vocabulary : Len(s) <= MaxLen}

\* Argument values a caller can pass: strings (the empty one included), null,
\* undefined and a number (42).
Str(s) == [type |-> "string", units |-> s]
Null == [type |-> "null", units |-> <<>>]
Undefined == [type |-> "undefined", units |-> <<>>]
Number42 == [type |-> "number", units |-> <<>>]
Args == {Str(s) : s \in Strings} \cup {Null, Undefined, Number42}

\* !word
Falsy(word) ==
    \/ word.type \in {"null", "undefined"}
    \/ (word.type = "string" /\ word.units = <<>>)

\* String.prototype.toLowerCase on one code unit: A-Z map to a-z, every other
\* unit used here (a-z, surrogates) is unchanged.
LowerUnit(u) == IF u >= 65 /\ u <= 90 THEN u + 32 ELSE u

\* word.toLowerCase()
ToLowerCase(s) == [i \in 1..Len(s) |-> LowerUnit(s[i])]

\* for (const char of word): the string iterator yields code points, so a
\* surrogate pair is ONE char (a string of two code units).
RECURSIVE CodePoints(_)
CodePoints(s) ==
    IF s = <<>> THEN <<>>
    ELSE IF Len(s) >= 2 /\ IsHighSurrogate(s[1]) /\ IsLowSurrogate(s[2])
         THEN <<SubSeq(s, 1, 2)>> \o CodePoints(SubSeq(s, 3, Len(s)))
         ELSE <<SubSeq(s, 1, 1)>> \o CodePoints(Tail(s))

\* word[depth]: ONE code unit, as a string (depth is 0-based).
CharAt(s, depth) == <<s[depth + 1]>>

\* ------------------------------------------------------------- the tree
\* A node is addressed by the sequence of Map keys leading to it from the
\* root (the root is <<>>).  children is the node's Map, as its keys in
\* insertion order; the child objects are the entries of nodes at the
\* extended paths.
Range(f) == {f[i] : i \in DOMAIN f}

\* new TrieNode(value)
TrieNode(value) ==
    [value |-> value, isEndOfWord |-> FALSE, frequency |-> 0, children |-> <<>>]

\* new Trie()
NewTrie == [nodes |-> (<<>> :> TrieNode(<<>>)), wordCount |-> 0]

\* node.children.has(char)
HasChild(nodes, node, char) == char \in Range(nodes[node].children)

IsPrefix(p, q) == Len(p) <= Len(q) /\ SubSeq(q, 1, Len(p)) = p

\* Slip: new TrieNode() without the character.
SetChild_NoValue(nodes, node, char) ==
    [nodes EXCEPT ![node].children = Append(@, char)]
        @@ (Append(node, char) :> TrieNode(<<>>))

\* node.children.set(char, new TrieNode(char)) for a key not yet in the Map
SetChild(nodes, node, char) ==
    [nodes EXCEPT ![node].children = Append(@, char)]
        @@ (Append(node, char) :> TrieNode(char))

RemoveKey(keys, char) == SelectSeq(keys, LAMBDA k : k # char)

\* node.children.delete(char): the entry goes, and with it the child object
\* and whatever hangs below it.
DeleteChild(nodes, node, char) ==
    LET child == Append(node, char)
        keep == {p \in DOMAIN nodes : ~IsPrefix(child, p)}
    IN [p \in keep |->
            IF p = node
            THEN [nodes[p] EXCEPT !.children = RemoveKey(@, char)]
            ELSE nodes[p]]

\* ------------------------------------------------------ call outcomes
\* A call either returns ret or throws; trie is the object's state afterwards.
Return(t, ret) == [trie |-> t, threw |-> "none", ret |-> ret]
Throw(t, error) == [trie |-> t, threw |-> error, ret |-> FALSE]

\* --------------------------------------------------------------- insert
\* The walk from the root that creates the missing children.
RECURSIVE InsertWalk(_, _, _)
InsertWalk(nodes, current, chars) ==
    IF chars = <<>> THEN [nodes |-> nodes, current |-> current]
    ELSE LET char == Head(chars)
         IN InsertWalk(IF ~HasChild(nodes, current, char)
                           THEN SetChild(nodes, current, char)
                           ELSE nodes,
                       Append(current, char), Tail(chars))

\* Slip: wordCount++ without the isEndOfWord test.
MarkEndOfWord_AlwaysCounts(t, current) ==
    [nodes |-> [t.nodes EXCEPT ![current].isEndOfWord = TRUE,
                               ![current].frequency = @ + 1],
     wordCount |-> t.wordCount + 1]

\* Slip: frequency++ moved inside the isEndOfWord test.
MarkEndOfWord_CountsOnce(t, current) ==
    IF t.nodes[current].isEndOfWord THEN t
    ELSE [nodes |-> [t.nodes EXCEPT ![current].isEndOfWord = TRUE,
                                    ![current].frequency = @ + 1],
          wordCount |-> t.wordCount + 1]

\* if (!current.isEndOfWord) this.wordCount++;
\* current.isEndOfWord = true; current.frequency++;
MarkEndOfWord(t, current) ==
    [nodes |-> [t.nodes EXCEPT ![current].isEndOfWord = TRUE,
                               ![current].frequency = @ + 1],
     wordCount |-> IF ~t.nodes[current].isEndOfWord
                   THEN t.wordCount + 1 ELSE t.wordCount]

InsertChars(t, chars) ==
    LET w == InsertWalk(t.nodes, <<>>, chars)
    IN Return(MarkEndOfWord([t EXCEPT !.nodes = w.nodes], w.current), TRUE)

\* Slip: the walk over word instead of word.toLowerCase().
AppInsert_NoLowerCase(t, word) ==
    IF Falsy(word) \/ word.type # "string"
    THEN Throw(t, "InvalidInput")
    ELSE InsertChars(t, CodePoints(word.units))

\* Trie.insert of App.jsx
AppInsert(t, word) ==
    IF Falsy(word) \/ word.type # "string"
    THEN Throw(t, "InvalidInput")
    ELSE InsertChars(t, CodePoints(ToLowerCase(word.units)))

\* Trie.insert of components/Trie.js: no validation, no lowercasing; for...of
\* over null, undefined or a number throws a TypeError (not iterable).
LibInsert(t, word) ==
    IF word.type # "string"
    THEN Throw(t, "TypeError")
    ELSE InsertChars(t, CodePoints(word.units))

\* --------------------------------------------------------------- search
RECURSIVE SearchWalk(_, _, _)
SearchWalk(nodes, current, chars) ==
    IF chars = <<>> THEN nodes[current].isEndOfWord
    ELSE IF ~HasChild(nodes, current, Head(chars)) THEN FALSE
    ELSE SearchWalk(nodes, Append(current, Head(chars)), Tail(chars))

\* Trie.search of App.jsx
AppSearch(t, word) ==
    IF Falsy(word) \/ word.type # "string"
    THEN Return(t, FALSE)
    ELSE Return(t, SearchWalk(t.nodes, <<>>, CodePoints(ToLowerCase(word.units))))

\* Slip: return true once the path exists, whatever the landing node's flag.
LibSearch_AnyPath(t, word) ==
    IF word.type # "string"
    THEN Throw(t, "TypeError")
    ELSE Return(t, CodePoints(word.units) \in DOMAIN t.nodes)

\* Trie.search of components/Trie.js
LibSearch(t, word) ==
    IF word.type # "string"
    THEN Throw(t, "TypeError")
    ELSE Return(t, SearchWalk(t.nodes, <<>>, CodePoints(word.units)))

\* --------------------------------------------------------------- delete
\* Slip: node.frequency = 0 in place of node.frequency--.
ClearEndOfWord_ResetsFrequency(t, node) ==
    [nodes |-> [t.nodes EXCEPT ![node].isEndOfWord = FALSE,
                               ![node].frequency = 0],
     wordCount |-> t.wordCount - 1]

\* node.isEndOfWord = false; node.frequency--; this.wordCount--;
ClearEndOfWord(t, node) ==
    [nodes |-> [t.nodes EXCEPT ![node].isEndOfWord = FALSE,
                               ![node].frequency = @ - 1],
     wordCount |-> t.wordCount - 1]

\* Slip: the base case without the isEndOfWord test.
DeleteAtEnd_Unchecked(t, node) ==
    [trie |-> ClearEndOfWord(t, node),
     ret |-> Len(t.nodes[node].children) = 0]

\* The base case of deleteRecursive (depth === word.length).
DeleteAtEnd(t, node) ==
    IF ~t.nodes[node].isEndOfWord THEN [trie |-> t, ret |-> FALSE]
    ELSE [trie |-> ClearEndOfWord(t, node),
          ret |-> Len(t.nodes[node].children) = 0]

\* Slip: return true after node.children.delete(char), whatever the node still holds.
PruneChild_Unconditional(t, node, char) ==
    [trie |-> [t EXCEPT !.nodes = DeleteChild(t.nodes, node, char)],
     ret |-> TRUE]

\* After the recursive call said to delete the child:
\* node.children.delete(char); return node.children.size === 0 && !node.isEndOfWord;
PruneChild(t, node, char) ==
    LET nodes1 == DeleteChild(t.nodes, node, char)
    IN [trie |-> [t EXCEPT !.nodes = nodes1],
        ret |-> Len(nodes1[node].children) = 0 /\ ~nodes1[node].isEndOfWord]

\* const char = word[depth].toLowerCase() in App.jsx, word[depth] in Trie.js
DeleteKey(lower, word, depth) ==
    IF lower THEN ToLowerCase(CharAt(word, depth)) ELSE CharAt(word, depth)

RECURSIVE deleteRecursive(_, _, _, _, _)
deleteRecursive(lower, t, node, word, depth) ==
    IF depth = Len(word) THEN DeleteAtEnd(t, node)
    ELSE LET char == DeleteKey(lower, word, depth)
         IN IF ~HasChild(t.nodes, node, char) THEN [trie |-> t, ret |-> FALSE]
            ELSE LET r == deleteRecursive(lower, t, Append(node, char), word, depth + 1)
                 IN IF r.ret THEN PruneChild(r.trie, node, char)
                    ELSE [trie |-> r.trie, ret |-> FALSE]

\* Trie.delete of App.jsx
AppDelete(t, word) ==
    IF Falsy(word) \/ word.type # "string"
    THEN Throw(t, "InvalidInput")
    ELSE Return(deleteRecursive(TRUE, t, <<>>, ToLowerCase(word.units), 0).trie, TRUE)

\* Trie.delete of components/Trie.js: word.length throws a TypeError on null
\* and undefined; on a number word.length and word[0] are undefined, so the
\* root has no such child and nothing happens.
LibDelete(t, word) ==
    IF word.type \in {"null", "undefined"} THEN Throw(t, "TypeError")
    ELSE IF word.type = "number" THEN Return(t, TRUE)
    ELSE Return(deleteRecursive(FALSE, t, <<>>, word.units, 0).trie, TRUE)

\* ------------------------------------------------------------ getD3Data
\* The literal 'root'.
RootLabel == <<114, 111, 111, 116>>

\* children: undefined
NoChildren == [defined |-> FALSE, items |-> <<>>]

\* Slip: children: children, an empty array for a leaf.
D3Record_EmptyArray(n, nodeName, depth, children) ==
    [name |-> nodeName, value |-> n.value, isEndOfWord |-> n.isEndOfWord,
     frequency |-> n.frequency, depth |-> depth,
     children |-> [defined |-> TRUE, items |-> children]]

\* The object convertToD3Format returns for node object n.
D3Record(n, nodeName, depth, children) ==
    [name |-> nodeName, value |-> n.value, isEndOfWord |-> n.isEndOfWord,
     frequency |-> n.frequency, depth |-> depth,
     children |-> IF Len(children) # 0
                  THEN [defined |-> TRUE, items |-> children]
                  ELSE NoChildren]

\* const nodeName = parentName + (node.value || 'root');
\* the children are converted in the Map's iteration (insertion) order.
RECURSIVE convertToD3Format(_, _, _, _)
convertToD3Format(nodes, node, parentName, depth) ==
    LET n == nodes[node]
        nodeName == parentName \o (IF n.value # <<>> THEN n.value ELSE RootLabel)
        children == [i \in 1..Len(n.children) |->
                        convertToD3Format(nodes, Append(node, n.children[i]),
                                          nodeName, depth + 1)]
    IN D3Record(n, nodeName, depth, children)

\* Slip: the children Map rebuilt in reverse order while exporting.
AppGetD3Data_ReordersChildren(t) ==
    LET Reverse(q) == [i \in 1..Len(q) |-> q[Len(q) + 1 - i]]
    IN Return([t EXCEPT !.nodes = [p \in DOMAIN t.nodes |->
                   [t.nodes[p] EXCEPT !.children = Reverse(@)]]],
              convertToD3Format(t.nodes, <<>>, <<>>, 0))

\* Trie.getD3Data of App.jsx
AppGetD3Data(t) == Return(t, convertToD3Format(t.nodes, <<>>, <<>>, 0))

\* Trie.getD3Data of components/Trie.js
LibGetD3Data(t) == Return(t, convertToD3Format(t.nodes, <<>>, <<>>, 0))

\* ------------------------------------------------------------ the system
VARIABLES
    impl,      \* which Trie class the object is: "App" (App.jsx) or "Lib" (components/Trie.js)
    trie,      \* the Trie object: its nodes and wordCount
    last,      \* the last call: op, arg, how it ended, and wordCount before it
    members,   \* the lowercased words inserted and not deleted since
    exported,  \* <<record>> when the last call was getD3Data and returned record, else <<>>
    twin,      \* a components/Trie.js Trie given the same calls, with the outcome of its last call
    inputWord,     \* App state: the text in the input field
    searchResult,  \* App state: <<>> for null, else <<boolean>>
    error,         \* App state: <<>> for null, else <<message>>
    drawn,         \* what d3Container shows: <<>> or <<the record tree drawn>>
    searched       \* the word handleSearch passed to trie.search last

uiVars == <<inputWord, searchResult, error, drawn, searched>>

vars == <<impl, trie, last, members, exported, twin, uiVars>>

Call(op, word) ==
    IF impl = "App"
    THEN CASE op = "insert" -> AppInsert(trie, word)
           [] op = "search" -> AppSearch(trie, word)
           [] op = "delete" -> AppDelete(trie, word)
    ELSE CASE op = "insert" -> LibInsert(trie, word)
           [] op = "search" -> LibSearch(trie, word)
           [] op = "delete" -> LibDelete(trie, word)

Record(op, word, r) ==
    [op |-> op, arg |-> word, threw |-> r.threw, ret |-> r.ret,
     wcBefore |-> trie.wordCount]

RECURSIVE Sum(_, _)
Sum(f, S) == IF S = {} THEN 0 ELSE LET x == CHOOSE y \in S : TRUE
                                   IN f[x] + Sum(f, S \ {x})

TotalFrequency(t) ==
    Sum([p \in DOMAIN t.nodes |-> t.nodes[p].frequency], DOMAIN t.nodes)

WithinBounds(t) == TotalFrequency(t) <= MaxInserts

Init ==
    /\ impl \in {"App", "Lib"}
    /\ trie = NewTrie
    /\ last = [op |-> "new", arg |-> Undefined, threw |-> "none", ret |-> TRUE,
               wcBefore |-> 0]
    /\ members = {}
    /\ exported = <<>>
    /\ twin = [trie |-> NewTrie, threw |-> "none", ret |-> TRUE, exported |-> <<>>]
    /\ inputWord = <<>>
    /\ searchResult = <<>>
    /\ error = <<>>
    /\ drawn = <<>>
    /\ searched = Undefined

Insert(word) ==
    LET r == Call("insert", word)
    IN /\ WithinBounds(r.trie)
       /\ trie' = r.trie
       /\ last' = Record("insert", word, r)
       /\ members' = IF r.threw = "none" /\ word.type = "string"
                     THEN members \cup {ToLowerCase(word.units)} ELSE members
       /\ exported' = <<>>
       /\ UNCHANGED <<impl, twin, uiVars>>

Search(word) ==
    LET r == Call("search", word)
    IN /\ trie' = r.trie
       /\ last' = Record("search", word, r)
       /\ exported' = <<>>
       /\ UNCHANGED <<impl, members, twin, uiVars>>

Delete(word) ==
    LET r == Call("delete", word)
    IN /\ trie' = r.trie
       /\ last' = Record("delete", word, r)
       /\ members' = IF r.threw = "none" /\ word.type = "string"
                     THEN members \ {ToLowerCase(word.units)} ELSE members
       /\ exported' = <<>>
       /\ UNCHANGED <<impl, twin, uiVars>>

\* trie.getD3Data()
Export ==
    LET r == IF impl = "App" THEN AppGetD3Data(trie) ELSE LibGetD3Data(trie)
    IN /\ trie' = r.trie
       /\ last' = [op |-> "getD3Data", arg |-> Undefined, threw |-> r.threw,
                   ret |-> TRUE, wcBefore |-> trie.wordCount]
       /\ exported' = <<r.ret>>
       /\ UNCHANGED <<impl, members, twin, uiVars>>

Next ==
    \/ \E word \in Args : Insert(word)
    \/ \E word \in Args : Search(word)
    \/ \E word \in Args : Delete(word)
    \/ Export

Spec == Init /\ [][Next]_vars

TypeOK ==
    /\ impl \in {"App", "Lib"}
    /\ trie.wordCount \in 0..MaxInserts
    /\ last.arg \in Args
    /\ members \subseteq {ToLowerCase(s) : s \in Strings}
    /\ exported = <<>> \/ Len(exported) = 1
    /\ twin.trie.wordCount \in 0..MaxInserts
    /\ inputWord \in Seq(Nat)
    /\ searchResult \in {<<>>, <<TRUE>>, <<FALSE>>}
    /\ error \in {<<>>, <<"InvalidInput">>}
    /\ drawn = <<>> \/ Len(drawn) = 1
    /\ searched \in Args

\* ------------------------------------------------- observing the trie
\* The answer search(word) gives on trie state t (FALSE when it throws).
SearchIn(t, word) ==
    (IF impl = "App" THEN AppSearch(t, word) ELSE LibSearch(t, word)).ret

\* A valid word: a non-empty string.
ValidWord(word) == word.type = "string" /\ word.units # <<>>

\* The keys insert walks for word, i.e. the address of word's terminal node.
TerminalNode(word) ==
    IF impl = "App" THEN CodePoints(ToLowerCase(word.units))
    ELSE CodePoints(word.units)

FrequencyAt(t, node) ==
    IF node \in DOMAIN t.nodes THEN t.nodes[node].frequency ELSE 0

EndNodes(t) == {p \in DOMAIN t.nodes : t.nodes[p].isEndOfWord}

\* The trie a new Trie() becomes by one insert(word).
FreshWith(word) ==
    (IF impl = "App" THEN AppInsert(NewTrie, word) ELSE LibInsert(NewTrie, word)).trie

\* ------------------------------------------------------------------ C1
\* C1 (as claimed): for every non-empty string w and every reachable state of
\* the App.jsx trie, w already present or not, insert(w) followed by
\* delete(w) leaves search(w) false and wordCount at its pre-insert value.
C1_DeletionCorrectness ==
    [][ ( /\ impl = "App"
          /\ last.op = "insert" /\ last.threw = "none" /\ ValidWord(last.arg)
          /\ last'.op = "delete" /\ last'.arg = last.arg )
        => ( /\ ~SearchIn(trie', last.arg)
             /\ trie'.wordCount = last.wcBefore ) ]_vars

\* ------------------------------------------------------------------ C2
\* C2: immediately after insert(w) of a non-empty string w, in any reachable
\* state, the insert has returned normally and search(w) returns true.
C2_RoundTrip ==
    (last.op = "insert" /\ ValidWord(last.arg))
        => (last.threw = "none" /\ SearchIn(trie, last.arg))

\* "AB" has just been inserted into the App.jsx trie (stored as "ab") and is found.
C2_Witness ==
    /\ impl = "App"
    /\ last.op = "insert" /\ last.arg = Str(<<65, 66>>)
    /\ <<<<97>>, <<98>>>> \in EndNodes(trie)
    /\ SearchIn(trie, last.arg)

\* ------------------------------------------------------------------ C3
\* C3 (as claimed): in every reachable state of the App.jsx trie and for every
\* word w, search(w) is true, equivalently the node w leads to exists and is
\* end-of-word, iff the lowercased w was inserted and not deleted since.
C3_MembershipIsAbstractSet ==
    impl = "App" =>
        \A s \in Strings :
            /\ SearchIn(trie, Str(s)) <=> (ToLowerCase(s) \in members)
            /\ ValidWord(Str(s)) =>
                   (SearchIn(trie, Str(s)) <=> (TerminalNode(Str(s)) \in EndNodes(trie)))

\* ------------------------------------------------------------------ C4
\* C4: in every reachable state wordCount equals the number of nodes whose
\* isEndOfWord flag is true.
C4_WordCountIsEndNodes == trie.wordCount = Cardinality(EndNodes(trie))

\* A delete has just taken one of two present words away, after a repeated insert.
C4_Witness ==
    /\ last.op = "delete" /\ last.wcBefore = 2 /\ trie.wordCount = 1
    /\ \E p \in EndNodes(trie) : trie.nodes[p].frequency = 2

\* ------------------------------------------------------------------ C5
\* No node other than the root is both childless and not end-of-word.
NoDanglingNodes ==
    \A p \in DOMAIN trie.nodes \ {<<>>} :
        ~(trie.nodes[p].children = <<>> /\ ~trie.nodes[p].isEndOfWord)

OnlyRoot(t) == DOMAIN t.nodes = {<<>>} /\ t.nodes[<<>>].children = <<>>

\* C5 (as claimed): in every state between operations of the App.jsx trie no
\* node but the root is childless and non-end-of-word, and inserting a word
\* into an empty trie and then deleting it leaves only the childless root.
C5_NoDanglingNodes ==
    /\ [](impl = "App" => NoDanglingNodes)
    /\ [][ ( /\ impl = "App"
             /\ last.op = "insert" /\ last.threw = "none" /\ ValidWord(last.arg)
             /\ trie = FreshWith(last.arg)
             /\ last'.op = "delete" /\ last'.arg = last.arg )
           => OnlyRoot(trie') ]_vars

\* ------------------------------------------------------------------ C6
\* The nodes a step removes.
Removed == DOMAIN trie.nodes \ DOMAIN trie'.nodes

\* C6: delete(w) of a present word w leaves every other end-of-word node in
\* place with its flag and frequency, and every other present word
\* searchable; a node it removes lies on w's path, is not an end-of-word
\* (w's own terminal node apart) and has lost every child; and the nodes
\* kept are closed under taking the parent.
C6_SharedPrefixPreserved ==
    [][ ( /\ last'.op = "delete" /\ ValidWord(last'.arg)
          /\ SearchIn(trie, last'.arg) )
        => LET w == TerminalNode(last'.arg)
           IN /\ \A p \in EndNodes(trie) \ {w} :
                    /\ p \in EndNodes(trie')
                    /\ trie'.nodes[p].frequency = trie.nodes[p].frequency
              /\ \A s \in Strings :
                    (TerminalNode(Str(s)) # w /\ SearchIn(trie, Str(s)))
                        => SearchIn(trie', Str(s))
              /\ \A p \in Removed :
                    /\ IsPrefix(p, w) /\ p # <<>>
                    /\ (p # w => ~trie.nodes[p].isEndOfWord)
                    /\ \A q \in DOMAIN trie.nodes : IsPrefix(p, q) => q \in Removed
              /\ \A p \in DOMAIN trie'.nodes :
                    \A n \in 0..Len(p) : SubSeq(p, 1, n) \in DOMAIN trie'.nodes ]_vars

\* "ab" has just been deleted next to "ac": "ac" is found, and the shared node
\* "a", not a word itself, is still there with "c" as its only child.
C6_Witness ==
    /\ last.op = "delete" /\ last.arg = Str(<<97, 98>>)
    /\ last.wcBefore = 2 /\ trie.wordCount = 1
    /\ SearchIn(trie, Str(<<97, 99>>)) /\ ~SearchIn(trie, Str(<<97, 98>>))
    /\ ~trie.nodes[<<<<97>>>>].isEndOfWord
    /\ trie.nodes[<<<<97>>>>].children = <<<<99>>>>

\* ------------------------------------------------------------------ C7
\* C7 (as claimed): insert and delete given an empty string, null, undefined
\* or a non-string raise InvalidInput and leave the trie as it was.
C7_InvalidInputRaises ==
    [][ (last'.op \in {"insert", "delete"} /\ ~ValidWord(last'.arg))
        => (last'.threw = "InvalidInput" /\ trie' = trie) ]_vars

\* ------------------------------------------------------------------ C8
\* C8: delete(w) of a valid word w that search does not find raises nothing
\* and leaves nodes, flags, frequencies and wordCount unchanged.
C8_NoOpDelete ==
    [][ ( /\ last'.op = "delete" /\ ValidWord(last'.arg)
          /\ ~SearchIn(trie, last'.arg) )
        => (last'.threw = "none" /\ trie' = trie) ]_vars

\* delete("a") has just returned on a trie that stores "ab" but not "a".
C8_Witness ==
    /\ last.op = "delete" /\ last.arg = Str(<<97>>) /\ last.threw = "none"
    /\ last.wcBefore = trie.wordCount
    /\ <<<<97>>, <<98>>>> \in EndNodes(trie)
    /\ <<<<97>>>> \notin EndNodes(trie)

\* ------------------------------------------------------------------ C9
\* C9: every insert(w) of a valid word returns normally, raises the frequency
\* of w's terminal node by exactly 1 and leaves search(w) true; wordCount
\* grows by exactly 1 when w was not present and is unchanged when it was.
C9_IdempotentMembership ==
    [][ (last'.op = "insert" /\ ValidWord(last'.arg))
        => LET w == TerminalNode(last'.arg)
           IN /\ last'.threw = "none"
              /\ FrequencyAt(trie', w) = FrequencyAt(trie, w) + 1
              /\ SearchIn(trie', last'.arg)
              /\ trie'.wordCount = IF SearchIn(trie, last'.arg)
                                   THEN trie.wordCount
                                   ELSE trie.wordCount + 1 ]_vars

\* A word has just been inserted a second time: frequency 2, wordCount as before.
C9_Witness ==
    /\ last.op = "insert" /\ ValidWord(last.arg) /\ last.threw = "none"
    /\ last.wcBefore = trie.wordCount
    /\ FrequencyAt(trie, TerminalNode(last.arg)) = 2
    /\ SearchIn(trie, last.arg)

\* ----------------------------------------------------------------- C10
\* C10 (as claimed): words that differ only in letter case are one member:
\* right after insert(w) every case variant of w is found by search, and
\* right after delete(w) none is.
C10_CaseInsensitive ==
    \A s \in Strings :
        (ValidWord(last.arg) /\ ToLowerCase(s) = ToLowerCase(last.arg.units))
            => /\ last.op = "insert" => SearchIn(trie, Str(s))
               /\ last.op = "delete" => ~SearchIn(trie, Str(s))

\* ----------------------------------------------------------------- C11
RECURSIVE Concat(_)
Concat(keys) == IF keys = <<>> THEN <<>> ELSE Head(keys) \o Concat(Tail(keys))

\* The display name C11 claims: 'root' for the root, the characters on the
\* path for every other node.
PathName(node) == IF node = <<>> THEN RootLabel ELSE Concat(node)

\* The display name the export gives: 'root' followed by the characters on the path.
RootedName(node) == RootLabel \o Concat(node)

\* record rec and everything below it mirror the trie node and its subtree,
\* the display names being RootedName if rooted and PathName if not.
RECURSIVE Mirrors(_, _, _)
Mirrors(rec, node, rooted) ==
    LET n == trie.nodes[node]
    IN /\ node \in DOMAIN trie.nodes
       /\ rec.depth = Len(node)
       /\ rec.value = n.value
       /\ rec.isEndOfWord = n.isEndOfWord
       /\ rec.frequency = n.frequency
       /\ rec.name = IF rooted THEN RootedName(node) ELSE PathName(node)
       /\ rec.children.defined <=> (n.children # <<>>)
       /\ ~rec.children.defined => rec.children = NoChildren
       /\ Len(rec.children.items) = Len(n.children)
       /\ \A i \in 1..Len(n.children) :
             Mirrors(rec.children.items[i], Append(node, n.children[i]), rooted)

\* The number of records in rec's tree.
RECURSIVE Size(_)
Size(rec) ==
    1 + Sum([i \in 1..Len(rec.children.items) |-> Size(rec.children.items[i])],
            1..Len(rec.children.items))

\* C11 (as claimed): getD3Data returns one record per trie node in the trie's
\* shape, with the node's depth, value, isEndOfWord and frequency, children
\* undefined exactly for a childless node, and as display name the characters
\* on the path from the root ('root' for the root itself).
C11_ExportShape ==
    last.op = "getD3Data"
        => /\ Len(exported) = 1
           /\ Size(exported[1]) = Cardinality(DOMAIN trie.nodes)
           /\ Mirrors(exported[1], <<>>, FALSE)

\* C11 (amended): the same, the display name being 'root' followed by the
\* characters on the path from the root.
C11_ExportShapeRootedNames ==
    last.op = "getD3Data"
        => /\ Len(exported) = 1
           /\ Size(exported[1]) = Cardinality(DOMAIN trie.nodes)
           /\ Mirrors(exported[1], <<>>, TRUE)

\* A trie holding only "ab" has just been exported: root, then 'a' at depth 1
\* (not a word), then 'b' at depth 2, end-of-word with frequency 1, named 'rootab'.
C11_Witness ==
    /\ last.op = "getD3Data"
    /\ DOMAIN trie.nodes = {<<>>, <<<<97>>>>, <<<<97>>, <<98>>>>}
    /\ exported[1].name = RootLabel
    /\ Len(exported[1].children.items) = 1
    /\ LET a == exported[1].children.items[1]
           ab == a.children.items[1]
       IN /\ a.depth = 1 /\ ~a.isEndOfWord
          /\ ab.depth = 2 /\ ab.isEndOfWord /\ ab.frequency = 1
          /\ ab.name = RootLabel \o <<97, 98>>
          /\ ab.children = NoChildren

C13_SearchNeverRaises ==
    [][ last'.op = "search"
        => /\ last'.threw = "none"
           /\ trie' = trie
           /\ ~ValidWord(last'.arg) => last'.ret = FALSE ]_vars

\* ----------------------------------------------------------------- C14
\* Every frequency is a non-negative integer, positive on an end-of-word node.
FrequencyBounds ==
    \A p \in DOMAIN trie.nodes :
        /\ trie.nodes[p].frequency \in Nat
        /\ trie.nodes[p].isEndOfWord => trie.nodes[p].frequency > 0

\* C14 (as claimed): in every reachable state of the App.jsx trie the
\* frequencies are non-negative and positive on end-of-word nodes, and a
\* delete of a present word clears the flag of its terminal node and takes
\* exactly 1 off that node's frequency and off wordCount.
C14_FrequencyBounds ==
    /\ [](impl = "App" => FrequencyBounds)
    /\ [][ ( /\ impl = "App"
             /\ last'.op = "delete" /\ ValidWord(last'.arg)
             /\ SearchIn(trie, last'.arg) )
           => LET w == TerminalNode(last'.arg)
              IN /\ w \notin EndNodes(trie')
                 /\ w \in DOMAIN trie'.nodes
                        => trie'.nodes[w].frequency = trie.nodes[w].frequency - 1
                 /\ trie'.wordCount = trie.wordCount - 1 ]_vars

\* ----------------------------------------------------------------- C15
\* C15: in every reachable state the root exists with value '', every other
\* node hangs under its parent's key and has that key as its value, and
\* every key of a children Map leads to a node, once.
C15_WellFormedTree ==
    /\ <<>> \in DOMAIN trie.nodes
    /\ trie.nodes[<<>>].value = <<>>
    /\ \A p \in DOMAIN trie.nodes :
          /\ p # <<>> =>
                LET parent == SubSeq(p, 1, Len(p) - 1)
                IN /\ parent \in DOMAIN trie.nodes
                   /\ HasChild(trie.nodes, parent, p[Len(p)])
                   /\ trie.nodes[p].value = p[Len(p)]
          /\ \A i \in 1..Len(trie.nodes[p].children) :
                /\ Append(p, trie.nodes[p].children[i]) \in DOMAIN trie.nodes
                /\ \A j \in 1..Len(trie.nodes[p].children) :
                      trie.nodes[p].children[i] = trie.nodes[p].children[j] => i = j

\* A delete has just pruned a two-node path next to a word that stays: the
\* root is there, with the remaining child only.
C15_Witness ==
    /\ last.op = "delete" /\ last.arg = Str(<<97, 98>>) /\ last.wcBefore = 2
    /\ DOMAIN trie.nodes = {<<>>, <<<<55357, 56832>>>>}
    /\ trie.nodes[<<>>].children = <<<<55357, 56832>>>>
    /\ trie.nodes[<<<<55357, 56832>>>>].value = <<55357, 56832>>

\* ----------------------------------------------------------------- C18
\* The keys deleteRecursive looks up for word, depth 0 to word.length - 1.
DeleteKeys(word) ==
    LET w == IF impl = "App" THEN ToLowerCase(word.units) ELSE word.units
    IN [d \in 1..Len(w) |-> DeleteKey(impl = "App", w, d - 1)]

\* C18 (as claimed): for every non-empty string w the keys delete(w) looks up
\* are the keys insert(w) created, so delete(w) of a present word reaches its
\* terminal node and removes the word.
C18_SameKeyPath ==
    [][ (last'.op = "delete" /\ ValidWord(last'.arg))
        => /\ DeleteKeys(last'.arg) = TerminalNode(last'.arg)
           /\ SearchIn(trie, last'.arg) => ~SearchIn(trie', last'.arg) ]_vars

\* ----------------------------------------------------------------- C19
\* C19 (as claimed): in every reachable state of the App.jsx trie every node
\* whose isEndOfWord flag is false has frequency 0.
C19_NonEndFrequencyZero ==
    impl = "App" =>
        \A p \in DOMAIN trie.nodes :
            ~trie.nodes[p].isEndOfWord => trie.nodes[p].frequency = 0

\* C19 (amended): a node whose flag is false has a frequency >= 0, not
\* necessarily 0: a delete that clears a node's flag leaves the node, when it
\* stays in the tree, with exactly one less than it had, and an insert that
\* sets the flag of an existing node adds exactly 1 to what was left.
C19_LeftoverFrequency ==
    /\ [](\A p \in DOMAIN trie.nodes : trie.nodes[p].frequency >= 0)
    /\ [][ \A p \in DOMAIN trie.nodes \cap DOMAIN trie'.nodes :
             /\ (trie.nodes[p].isEndOfWord /\ ~trie'.nodes[p].isEndOfWord)
                    => trie'.nodes[p].frequency = trie.nodes[p].frequency - 1
             /\ (~trie.nodes[p].isEndOfWord /\ trie'.nodes[p].isEndOfWord)
                    => trie'.nodes[p].frequency = trie.nodes[p].frequency + 1 ]_vars

\* "a", inserted twice next to "ab", has just been deleted: its node stays,
\* not end-of-word, with frequency 1.
C19_Witness ==
    /\ last.op = "delete" /\ last.arg = Str(<<97>>)
    /\ <<<<97>>>> \in DOMAIN trie.nodes
    /\ ~trie.nodes[<<<<97>>>>].isEndOfWord
    /\ trie.nodes[<<<<97>>>>].frequency = 1

\* ----------------------------------------------------------------- C16
\* The two Trie classes side by side: trie is an App.jsx Trie, twin.trie a
\* components/Trie.js Trie, and every call goes to both with the same
\* argument, a non-empty string that is already lowercase.
LowerWords == {Str(s) : s \in {t \in Strings : t # <<>> /\ ToLowerCase(t) = t}}

InitTwin == Init /\ impl = "App"

Outcome(r, exp) ==
    [trie |-> r.trie, threw |-> r.threw, ret |-> r.ret, exported |-> exp]

TwinInsert(word) ==
    LET r == AppInsert(trie, word)
    IN /\ WithinBounds(r.trie)
       /\ trie' = r.trie
       /\ last' = Record("insert", word, r)
       /\ exported' = <<>>
       /\ twin' = Outcome(LibInsert(twin.trie, word), <<>>)
       /\ UNCHANGED <<impl, members, uiVars>>

TwinSearch(word) ==
    LET r == AppSearch(trie, word)
    IN /\ trie' = r.trie
       /\ last' = Record("search", word, r)
       /\ exported' = <<>>
       /\ twin' = Outcome(LibSearch(twin.trie, word), <<>>)
       /\ UNCHANGED <<impl, members, uiVars>>

TwinDelete(word) ==
    LET r == AppDelete(trie, word)
    IN /\ trie' = r.trie
       /\ last' = Record("delete", word, r)
       /\ exported' = <<>>
       /\ twin' = Outcome(LibDelete(twin.trie, word), <<>>)
       /\ UNCHANGED <<impl, members, uiVars>>

TwinExport ==
    LET r == AppGetD3Data(trie)
        q == LibGetD3Data(twin.trie)
    IN /\ trie' = r.trie
       /\ last' = [op |-> "getD3Data", arg |-> Undefined, threw |-> r.threw,
                   ret |-> TRUE, wcBefore |-> trie.wordCount]
       /\ exported' = <<r.ret>>
       /\ twin' = [trie |-> q.trie, threw |-> q.threw, ret |-> TRUE,
                   exported |-> <<q.ret>>]
       /\ UNCHANGED <<impl, members, uiVars>>

NextTwin ==
    \/ \E word \in LowerWords : TwinInsert(word)
    \/ \E word \in LowerWords : TwinSearch(word)
    \/ \E word \in LowerWords : TwinDelete(word)
    \/ TwinExport

SpecTwin == InitTwin /\ [][NextTwin]_vars

\* C16: after every sequence of insert, search, delete and getD3Data calls
\* with non-empty, already-lowercase strings, the two classes have ended
\* every call the same way (same return value, same exported record tree)
\* and are in identical states: same nodes, same wordCount.
C16_ImplementationsAgree ==
    /\ twin.trie = trie
    /\ twin.threw = last.threw
    /\ twin.ret = last.ret
    /\ twin.exported = exported

\* Both have just deleted "ab" next to "ac", and both keep node 'a' with child 'c'.
C16_Witness ==
    /\ last.op = "delete" /\ last.arg = Str(<<97, 98>>)
    /\ last.wcBefore = 2 /\ trie.wordCount = 1
    /\ twin.trie.wordCount = 1
    /\ twin.trie.nodes[<<<<97>>>>].children = <<<<99>>>>

\* ------------------------------------------------------ the App component
\* JavaScript's String.prototype.trim strips white space and line terminators
\* from both ends.
IsWhiteSpace(u) ==
    u \in {9, 10, 11, 12, 13, 32, 160, 5760, 8232, 8233, 8239, 8287, 12288, 65279}
          \cup (8192..8202)

RECURSIVE TrimStart(_)
TrimStart(s) ==
    IF s # <<>> /\ IsWhiteSpace(Head(s)) THEN TrimStart(Tail(s)) ELSE s

RECURSIVE TrimEnd(_)
TrimEnd(s) ==
    IF s # <<>> /\ IsWhiteSpace(s[Len(s)])
    THEN TrimEnd(SubSeq(s, 1, Len(s) - 1)) ELSE s

Trim(s) == TrimEnd(TrimStart(s))

Space == 32
Pad(s) == <<Space>> \o s \o <<Space>>

\* What a user types: the words, and short ones with blanks around them.
Typed == Strings \cup {Pad(s) : s \in {t \in Strings : Len(t) <= 1}}

\* The message of the Error that insert and delete throw.
Message(threw) == <<threw>>

\* visualizeTrie with d3Container attached: clear the container, export the
\* trie and draw the export.
visualizeTrie(t) == <<AppGetD3Data(t).ret>>

\* The component after it has mounted: App.jsx's own Trie, empty; the effect
\* has run visualizeTrie once.
InitUI ==
    /\ impl = "App"
    /\ trie = NewTrie
    /\ last = [op |-> "new", arg |-> Undefined, threw |-> "none", ret |-> TRUE,
               wcBefore |-> 0]
    /\ members = {}
    /\ exported = <<>>
    /\ twin = [trie |-> NewTrie, threw |-> "none", ret |-> TRUE, exported |-> <<>>]
    /\ inputWord = <<>>
    /\ searchResult = <<>>
    /\ error = <<>>
    /\ drawn = visualizeTrie(NewTrie)
    /\ searched = Undefined

\* onChange of the input field
Type(text) ==
    /\ inputWord' = text
    /\ UNCHANGED <<impl, trie, last, members, exported, twin,
                   searchResult, error, drawn, searched>>

\* Slip: insert without redrawing.
HandleInsert_NoRedraw ==
    IF Trim(inputWord) # <<>>
    THEN LET word == Str(Trim(inputWord))
             r == AppInsert(trie, word)
         IN /\ WithinBounds(r.trie)
            /\ trie' = r.trie
            /\ last' = Record("insert", word, r)
            /\ inputWord' = <<>>
            /\ error' = <<>>
            /\ UNCHANGED <<impl, members, exported, twin, searchResult, drawn, searched>>
    ELSE UNCHANGED vars

handleInsert ==
    IF Trim(inputWord) # <<>>
    THEN LET word == Str(Trim(inputWord))
             r == AppInsert(trie, word)
         IN /\ WithinBounds(r.trie)
            /\ trie' = r.trie
            /\ last' = Record("insert", word, r)
            /\ IF r.threw = "none"
               THEN /\ drawn' = visualizeTrie(r.trie)
                    /\ inputWord' = <<>>
                    /\ error' = <<>>
               ELSE /\ error' = Message(r.threw)
                    /\ UNCHANGED <<drawn, inputWord>>
            /\ UNCHANGED <<impl, members, exported, twin, searchResult, searched>>
    ELSE UNCHANGED vars

handleSearch ==
    IF Trim(inputWord) # <<>>
    THEN LET word == Str(Trim(inputWord))
             r == AppSearch(trie, word)
         IN /\ trie' = r.trie
            /\ last' = Record("search", word, r)
            /\ searchResult' = <<r.ret>>
            /\ searched' = word
            /\ error' = <<>>
            /\ UNCHANGED <<impl, members, exported, twin, inputWord, drawn>>
    ELSE UNCHANGED vars

handleDelete ==
    IF Trim(inputWord) # <<>>
    THEN LET word == Str(Trim(inputWord))
             r == AppDelete(trie, word)
         IN /\ trie' = r.trie
            /\ last' = Record("delete", word, r)
            /\ IF r.threw = "none"
               THEN /\ drawn' = visualizeTrie(r.trie)
                    /\ searchResult' = <<>>
                    /\ inputWord' = <<>>
                    /\ error' = <<>>
               ELSE /\ error' = Message(r.threw)
                    /\ UNCHANGED <<drawn, searchResult, inputWord>>
            /\ UNCHANGED <<impl, members, exported, twin, searched>>
    ELSE UNCHANGED vars

NextUI ==
    \/ \E text \in Typed : Type(text)
    \/ handleInsert
    \/ handleSearch
    \/ handleDelete

SpecUI == InitUI /\ [][NextUI]_vars

\* ----------------------------------------------------------------- C17
\* C17: between user events the diagram drawn in the container is the export
\* of the trie as it is now: every insert and delete a handler makes is
\* followed in that handler by a fresh export and redraw.
C17_DrawnIsCurrent == drawn = <<AppGetD3Data(trie).ret>>

\* " a " was typed and inserted, then "ab"; the diagram shows root, a and ab.
C17_Witness ==
    /\ last.op = "insert" /\ last.arg = Str(<<97, 98>>)
    /\ drawn # <<>> /\ Size(drawn[1]) = 3
    /\ inputWord = <<>>

\* ----------------------------------------------------------------- C20
\* C20: whenever searchResult is not null, it is what search of the word
\* searched last answers on the trie as it is now.
C20_SearchResultFresh ==
    searchResult # <<>> => searchResult[1] = AppSearch(trie, searched).ret

=============================================================================
